---- MODULE Spec2Model ----
(***************************************************************************)
(* Workflow assembly of han-xie/atomate:                                   *)
(*   atomate/vasp/workflows/base/dispersion.py            get_wf_dispersion *)
(*   atomate/vasp/workflows/base/thermal_conductivity.py                    *)
(*                                              get_wf_thermal_conductivity *)
(*   atomate/vasp/fireworks/user.py      MPRelaxSetEx, OptimizeStepFW, ...  *)
(*                                                                         *)
(* Python dicts are functions from keys to values; every value is a string *)
(* (the literal as it is written in the source).  Python objects that can  *)
(* be shared (the supercell lists) are object identifiers.                 *)
(***************************************************************************)
EXTENDS Integers, Sequences, FiniteSets, TLC

VARIABLES
  clock,    \* the UTC clock, in microseconds
  vis_uis,  \* user_incar_settings of the caller's input set object (None: not given)
  vis_uks,  \* user_kpoints_settings of the caller's input set object
  shares,   \* as_dict() hands out the object's own nested mappings
  call,     \* the arguments of the most recent assembler call
  raised,   \* what the most recent call raised
  ret,      \* the workflow the most recent call returned
  stepfw,   \* the most recent OptimizeStepFW construction
  kp        \* the most recent MPRelaxSetEx.kpoints evaluation

vars == <<clock, vis_uis, vis_uks, shares, call, raised, ret, stepfw, kp>>

(***************************************************************************)
(* Bounds                                                                  *)
(***************************************************************************)
MaxClock == 1

MaxStep == 2

MaxGrid == 2

(***************************************************************************)
(* Python values                                                           *)
(***************************************************************************)
None == [none |-> "None"]

EmptyDict == [k \in {} |-> ""]

Truthy(d) == d # None /\ DOMAIN d # {}

\* dict.update: keys of o replace keys of d, the other keys of d stay
DictUpdate(d, o) == [k \in (DOMAIN d) \cup (DOMAIN o) |-> IF k \in DOMAIN o THEN o[k] ELSE d[k]]

\* dict.get(key, {}) on the serialized form: the stored mapping, or a new {}
DictGet(m) == IF m = None THEN EmptyDict ELSE m

uis_common == [EDIFF |-> "1E-08"]

force_consts == [IBRION |-> "2", ISMEAR |-> "0", ISPIN |-> "1", NSW |-> "0"]

hessian_consts == [IBRION |-> "6", ISMEAR |-> "0", ISPIN |-> "1", NSW |-> "1", POTIM |-> "0.015"]

Modes == {"force", "hessian", "bogus"}

USecPerSec == 1000000

\* datetime.utcnow().strftime('%Y-%m-%d-%H-%M-%S-%f'): whole seconds, then
\* the six-digit microsecond field
strftime(t) == <<t \div USecPerSec, t % USecPerSec>>

NoTag == <<>>

(***************************************************************************)
(* Task units and workflows                                                *)
(***************************************************************************)
NoObj == "no_supercell"

\* A Firework: its kind, its parents (the kinds of the parent units, in list
\* order), the input set it was given (user_incar_settings and
\* user_kpoints_settings of the deserialized copy), the supercell object it
\* carries and the tag it carries in its name or task.
FW(kind, parents, uis, uks, sc, tag) ==
  [kind |-> kind, parents |-> parents, uis |-> uis, uks |-> uks,
   supercell |-> sc, tag |-> tag]

NoArgs == [fn |-> "none", mode |-> "force", optimize_structure |-> FALSE,
           own_vis |-> FALSE, user_kpoints_settings |-> None, supercell |-> NoObj]

NoWf == [name |-> "none", tag |-> NoTag, fws |-> <<>>, args |-> NoArgs,
         base_uis |-> None, base_uks |-> None]

\* vis_orig.as_dict()["user_incar_settings"] after an in-place update of the
\* mapping obtained from it: when the serialized form hands out the object's
\* own mapping (sh) and the key is present (m # None), the object changes too.
\* The assemblers make no copy of their own between as_dict() and update(),
\* so whether the object is touched is decided by the input set's as_dict();
\* both outcomes are kept.  from_dict() builds the derived input set from the
\* values the mapping has at that moment.
Store(sh, m, new) == IF sh /\ m # None THEN new ELSE m

\* the user_kpoints_settings of a derived input set
DeriveKpoints(base_uks, user_kpoints_settings) ==
  IF Truthy(user_kpoints_settings) THEN user_kpoints_settings ELSE base_uks

\* a unit appended twice
fws_append_twice(fws, fw) == Append(Append(fws, fw), fw)

\* list.append
fws_append(fws, fw) == Append(fws, fw)

\* a mode switch whose last branch is a plain else
ModeBranch_no_raise(mode) == IF mode = "force" THEN "force" ELSE "hessian"

\* which branch of the mode switch is taken
ModeBranch(mode) ==
  IF mode = "force" THEN "force" ELSE IF mode = "hessian" THEN "hessian" ELSE "raise"

InvalidModeError == "ValueError"

\* the constants of the two branches exchanged
ModeConsts_swapped(branch) ==
  IF branch = "force" THEN hessian_consts
  ELSE IF branch = "hessian" THEN force_consts ELSE EmptyDict

\* the mode constants merged into the dispersion settings by a branch
ModeConsts(branch) ==
  IF branch = "force" THEN force_consts
  ELSE IF branch = "hessian" THEN hessian_consts ELSE EmptyDict

\* the analysis unit appended in both branches
AnalysisAppended_always(branch) == TRUE

\* get_wf_dispersion appends the analysis unit in the force branch only
AnalysisAppended(branch) == branch = "force"

(***************************************************************************)
(* get_wf_dispersion.  b, uks0: the serialized user_incar_settings and     *)
(* user_kpoints_settings of vis_orig at entry (None: key absent).          *)
(* Result: what was raised, the workflow, and vis_orig's mapping at exit.  *)
(***************************************************************************)
get_wf_dispersion(args, b, uks0, sc, tag, sh) ==
  LET mode == args.mode
      uis_relax == DictUpdate(DictGet(b), uis_common)
      b1 == IF args.optimize_structure THEN Store(sh, b, uis_relax) ELSE b
      uks == DeriveKpoints(uks0, args.user_kpoints_settings)
      fw1 == FW("optimize", <<>>, uis_relax, uks, NoObj,
                IF mode = "force" THEN tag ELSE NoTag)
      fws1 == IF args.optimize_structure THEN <<fw1>> ELSE <<>>
      parent2 == IF args.optimize_structure THEN <<"optimize">> ELSE <<>>
      uis_disp0 == DictUpdate(DictGet(b1), uis_common)
      b2 == Store(sh, b1, uis_disp0)
      branch == ModeBranch(mode)
      uis_disp == DictUpdate(uis_disp0, ModeConsts(branch))
      b3 == Store(sh, b2, uis_disp)
      fw2 == FW("dispersion", parent2, uis_disp, uks, sc,
                IF branch = "force" THEN tag ELSE NoTag)
      fws2 == fws_append(fws1, fw2)
      fw3 == FW("analysis", <<"dispersion">>, None, None, sc, tag)
      fws3 == IF AnalysisAppended(branch) THEN fws_append(fws2, fw3) ELSE fws2
  IN IF branch = "raise"
     THEN [raised |-> InvalidModeError, wf |-> NoWf, uis |-> b2]
     ELSE [raised |-> "none",
           wf |-> [name |-> "dispersion", tag |-> tag, fws |-> fws3, args |-> args,
                   base_uis |-> b, base_uks |-> uks0],
           uis |-> b3]

\* the third-order unit chained after the dispersion branch
ThirdOrderParents_chained(parent1, parent2) == parent2

\* the parents of the third-order unit
ThirdOrderParents(parent1, parent2) == parent1

(***************************************************************************)
(* get_wf_thermal_conductivity                                             *)
(***************************************************************************)
get_wf_thermal_conductivity(args, b, uks0, sc, tag, sh) ==
  LET mode == args.mode
      uis_relax == DictUpdate(DictGet(b), uis_common)
      b1 == IF args.optimize_structure THEN Store(sh, b, uis_relax) ELSE b
      uks == DeriveKpoints(uks0, args.user_kpoints_settings)
      fw1 == FW("optimize", <<>>, uis_relax, uks, NoObj, tag)
      fws1 == IF args.optimize_structure THEN <<fw1>> ELSE <<>>
      parent1 == IF args.optimize_structure THEN <<"optimize">> ELSE <<>>
      uis_disp0 == DictUpdate(DictGet(b1), uis_common)
      b2 == Store(sh, b1, uis_disp0)
      branch == ModeBranch(mode)
      uis_disp == DictUpdate(uis_disp0, ModeConsts(branch))
      b3 == Store(sh, b2, uis_disp)
      fw2 == FW("dispersion", parent1, uis_disp, uks, sc, tag)
      fws2 == fws_append(fws1, fw2)
      fw3 == FW("analysis", <<"dispersion">>, None, None, sc, tag)
      fws3 == IF branch = "force" THEN fws_append(fws2, fw3) ELSE fws2
      parent2 == IF branch = "force" THEN <<"analysis">> ELSE <<"dispersion">>
      uis_third == DictUpdate(DictUpdate(DictGet(b3), uis_common), force_consts)
      b4 == Store(sh, b3, uis_third)
      fw4 == FW("thirdorder", ThirdOrderParents(parent1, parent2), uis_third, uks, sc, tag)
      fws4 == fws_append(fws3, fw4)
      fw5 == FW("thermal", Append(parent2, "thirdorder"), None, None, sc, tag)
      fws5 == fws_append(fws4, fw5)
  IN IF branch = "raise"
     THEN [raised |-> InvalidModeError, wf |-> NoWf, uis |-> b2]
     ELSE [raised |-> "none",
           wf |-> [name |-> "thermal conductivity", tag |-> tag, fws |-> fws5,
                   args |-> args, base_uis |-> b, base_uks |-> uks0],
           uis |-> b4]

(***************************************************************************)
(* MPRelaxSetEx.kpoints                                                    *)
(***************************************************************************)
\* no OptimizeStepFW has been constructed yet
NoStep == [step_index |-> 0, vasp_input_set |-> "None", override |-> None,
           ediffg |-> "None", raised |-> "none", tasks |-> <<>>, step |-> 0]

\* the explicit grids
Grids == [1..3 -> 1..MaxGrid]

\* dict.get('kpts'): the value, or None when the key is missing
GetKpts(settings) == IF "kpts" \in DOMAIN settings THEN settings.kpts ELSE <<>>

\* the config consulted first
EffectiveSettings_config_first(user_kpoints_settings, config_kpoints) ==
  IF Truthy(config_kpoints) THEN config_kpoints ELSE user_kpoints_settings

\* settings = self.user_kpoints_settings or self.config_dict["KPOINTS"]
EffectiveSettings(user_kpoints_settings, config_kpoints) ==
  IF Truthy(user_kpoints_settings) THEN user_kpoints_settings ELSE config_kpoints

\* the property: Kpoints.gamma_automatic(kpts=tuple(settings['kpts'])), or
\* the k-points of the base class
kpoints(user_kpoints_settings, config_kpoints) ==
  LET settings == EffectiveSettings(user_kpoints_settings, config_kpoints)
  IN IF GetKpts(settings) # <<>>
     THEN [style |-> "Gamma", kpts |-> settings.kpts]
     ELSE [style |-> "base class", kpts |-> <<>>]

NoKp == [user_kpoints_settings |-> None, config_kpoints |-> EmptyDict,
         result |-> [style |-> "none", kpts |-> <<>>]]

\* the user_kpoints_settings an MPRelaxSetEx is built with
UserKpoints ==
  {None, EmptyDict, [grid_density |-> <<7000>>]}
    \cup {[kpts |-> g] : g \in Grids}
    \cup {[kpts |-> g, grid_density |-> <<7000>>] : g \in Grids}

\* the KPOINTS category of the config
ConfigKpoints == {[reciprocal_density |-> <<64>>]} \cup {[kpts |-> g] : g \in Grids}

InitKp ==
  /\ clock = 0
  /\ vis_uis = None
  /\ vis_uks = None
  /\ shares = FALSE
  /\ call = NoArgs
  /\ raised = "none"
  /\ ret = NoWf
  /\ stepfw = NoStep
  /\ kp = NoKp

EvalKpoints ==
  /\ \E u \in UserKpoints, c \in ConfigKpoints :
       kp' = [user_kpoints_settings |-> u, config_kpoints |-> c, result |-> kpoints(u, c)]
  /\ UNCHANGED <<clock, vis_uis, vis_uks, shares, call, raised, ret, stepfw>>

NextKp == EvalKpoints

SpecKp == InitKp /\ [][NextKp]_vars

(***************************************************************************)
(* OptimizeStepFW.__init__                                                 *)
(***************************************************************************)
Task(name, params) == [task |-> name, params |-> params]

\* f(force_gamma=True, **d): d must be a mapping, and may not repeat a
\* keyword that is given explicitly
UnpackFails(d, explicit) == d = None \/ (DOMAIN d) \cap explicit # {}

\* the tasks appended after the inputs are written
RunTasks(ediffg) ==
  << Task("RunVaspCustodian", [max_force_threshold |-> "0.25", ediffg |-> ediffg,
                               auto_npar |-> ">>auto_npar<<"]),
     Task("PassCalcLocs", [name |-> "Relax"]),
     Task("VaspToDbTask", [task_label |-> "Relax"]) >>

OptimizeStepFW(step_index, vasp_input_set, override, ediffg) ==
  LET args == [step_index |-> step_index, vasp_input_set |-> vasp_input_set,
               override |-> override, ediffg |-> ediffg]
      failed == args @@ [raised |-> "TypeError", tasks |-> <<>>, step |-> 0]
      built(t) == args @@ [raised |-> "none", tasks |-> t \o RunTasks(ediffg),
                           step |-> 1 + step_index]
  IN IF step_index # 0
     THEN IF UnpackFails(override, {"struct_dir", "force_gamma"})
          THEN failed
          ELSE built(<< Task("CopyVaspOutputs", [calc_loc |-> "True", contcar_to_poscar |-> "True"]),
                        Task("WriteVaspRelaxFromStructure",
                             DictUpdate([struct_dir |-> ".", force_gamma |-> "True"], override)) >>)
     ELSE IF vasp_input_set # "None"
          THEN built(<< Task("WriteVaspFromIOSet", [vasp_input_set |-> vasp_input_set]) >>)
          ELSE IF UnpackFails(override, {"force_gamma"})
               THEN failed
               ELSE built(<< Task("WriteVaspFromIOSet",
                                  DictUpdate([vasp_input_set |-> "MPRelaxSetEx", force_gamma |-> "True"],
                                             override)) >>)

\* the override_default_vasp_params a caller may pass
OverrideKeys == {"user_incar_settings", "user_kpoints_settings", "force_gamma"}

Overrides == {None} \cup {[k \in K |-> "given"] : K \in SUBSET OverrideKeys}

InitStep ==
  /\ clock = 0
  /\ vis_uis = None
  /\ vis_uks = None
  /\ shares = FALSE
  /\ call = NoArgs
  /\ raised = "none"
  /\ ret = NoWf
  /\ stepfw = NoStep
  /\ kp = NoKp

Construct ==
  /\ \E step_index \in 0..MaxStep, vasp_input_set \in {"None", "given"},
        override \in Overrides, ediffg \in {"None", "-0.01"} :
       stepfw' = OptimizeStepFW(step_index, vasp_input_set, override, ediffg)
  /\ UNCHANGED <<clock, vis_uis, vis_uks, shares, call, raised, ret, kp>>

NextStep == Construct

SpecStep == InitStep /\ [][NextStep]_vars

(***************************************************************************)
(* The callers                                                             *)
(***************************************************************************)
\* the default of get_wf_dispersion's supercell parameter: one list object,
\* created when the function is defined
default_supercell_dispersion == "default_disp"

\* the default of get_wf_thermal_conductivity's supercell parameter
default_supercell_thermal == "default_tc"

DefaultObjs == {default_supercell_dispersion, default_supercell_thermal}

\* the lists a caller builds for a call: a new object for each call
CallerObjs == {"caller_a", "caller_b"}

\* the input sets a caller may hold (user_incar_settings, user_kpoints_settings)
BaseIncar == {None, [ENCUT |-> "520"], [IBRION |-> "1", POTIM |-> "0.5"]}

BaseKpoints == {None, [reciprocal_density |-> "64"]}

KpointsArgs == {None, EmptyDict, [grid_density |-> "7000"]}

\* the supercell objects the units of a workflow carry
Carried(wf) == {wf.fws[i].supercell : i \in 1..Len(wf.fws)} \ {NoObj}

Init ==
  /\ clock = 0
  /\ vis_uis \in BaseIncar
  /\ vis_uks \in BaseKpoints
  /\ shares \in BOOLEAN
  /\ call = NoArgs
  /\ raised = "none"
  /\ ret = NoWf
  /\ stepfw = NoStep
  /\ kp = NoKp

\* the clock advances by a microsecond
Tick ==
  /\ clock < MaxClock
  /\ clock' = clock + 1
  /\ UNCHANGED <<vis_uis, vis_uks, shares, call, raised, ret, stepfw, kp>>

\* one call of an assembler: fn is the function, dflt its default supercell
Assemble(fn, dflt, mode, optimize_structure, own_vis, kpts, given) ==
  LET fresh == CHOOSE o \in CallerObjs : o \notin Carried(ret)
      sc == IF given THEN fresh ELSE dflt
      args == [fn |-> fn, mode |-> mode, optimize_structure |-> optimize_structure,
               own_vis |-> own_vis, user_kpoints_settings |-> kpts, supercell |-> sc]
      \* vis_orig = vasp_input_set or MPRelaxSet(structure, force_gamma=True)
      b == IF own_vis THEN vis_uis ELSE None
      uks0 == IF own_vis THEN vis_uks ELSE None
      tag == strftime(clock)
      r == IF fn = "get_wf_dispersion"
           THEN get_wf_dispersion(args, b, uks0, sc, tag, shares)
           ELSE get_wf_thermal_conductivity(args, b, uks0, sc, tag, shares)
  IN /\ call' = args
     /\ raised' = r.raised
     /\ ret' = r.wf
     /\ vis_uis' = IF own_vis THEN r.uis ELSE vis_uis
     /\ UNCHANGED <<clock, vis_uks, shares, stepfw, kp>>

CallDispersion ==
  \E mode \in Modes, optimize_structure \in BOOLEAN, own_vis \in BOOLEAN,
     kpts \in KpointsArgs, given \in BOOLEAN :
       Assemble("get_wf_dispersion", default_supercell_dispersion,
                mode, optimize_structure, own_vis, kpts, given)

CallThermalConductivity ==
  \E mode \in Modes, optimize_structure \in BOOLEAN, own_vis \in BOOLEAN,
     kpts \in KpointsArgs, given \in BOOLEAN :
       Assemble("get_wf_thermal_conductivity", default_supercell_thermal,
                mode, optimize_structure, own_vis, kpts, given)

Next == Tick \/ CallDispersion \/ CallThermalConductivity

Spec == Init /\ [][Next]_vars

(***************************************************************************)
(* Properties                                                              *)
(***************************************************************************)
Returned(fn) == ret # NoWf /\ call.fn = fn

Kinds(wf) == [i \in 1..Len(wf.fws) |-> wf.fws[i].kind]

Unit(wf, kind) == CHOOSE u \in {wf.fws[i] : i \in 1..Len(wf.fws)} : u.kind = kind

\* C1: get_wf_dispersion returns 2 units (dispersion, analysis) in force mode
\* and 1 unit (dispersion) in hessian mode, plus the optimize unit when
\* optimize_structure is set; in hessian mode there is no analysis unit.
C1_DispersionUnitCount ==
  Returned("get_wf_dispersion") =>
    /\ call.mode = "force" /\ ~call.optimize_structure => Len(ret.fws) = 2
    /\ call.mode = "force" /\ call.optimize_structure => Len(ret.fws) = 3
    /\ call.mode = "hessian" /\ ~call.optimize_structure => Len(ret.fws) = 1
    /\ call.mode = "hessian" /\ call.optimize_structure => Len(ret.fws) = 2
    /\ call.mode = "hessian" => \A i \in 1..Len(ret.fws) : ret.fws[i].kind # "analysis"

C1_Witness ==
  /\ Returned("get_wf_dispersion")
  /\ call.mode = "hessian"
  /\ call.optimize_structure
  /\ Kinds(ret) = <<"optimize", "dispersion">>

\* C2: in a workflow of get_wf_thermal_conductivity the third-order unit's
\* parents are exactly the relaxation unit (none without optimization), and
\* the last unit is the thermal-conductivity unit whose parents are exactly
\* the terminal unit of the dispersion branch and the third-order unit.
C2_ThermalParents ==
  Returned("get_wf_thermal_conductivity") =>
    LET n == Len(ret.fws)
        relax == IF call.optimize_structure THEN <<"optimize">> ELSE <<>>
        terminal == IF call.mode = "force" THEN "analysis" ELSE "dispersion"
        third == {i \in 1..n : ret.fws[i].kind = "thirdorder"}
    IN /\ Cardinality(third) = 1
       /\ \A i \in third : ret.fws[i].parents = relax
       /\ ret.fws[n].kind = "thermal"
       /\ ret.fws[n].parents = <<terminal, "thirdorder">>
       /\ \A i \in 1..n : \A j \in 1..Len(ret.fws[i].parents) :
            \E k \in 1..(i - 1) : ret.fws[k].kind = ret.fws[i].parents[j]

C2_Witness ==
  /\ Returned("get_wf_thermal_conductivity")
  /\ call.mode = "force"
  /\ call.optimize_structure
  /\ Unit(ret, "thirdorder").parents = <<"optimize">>
  /\ Unit(ret, "thermal").parents = <<"analysis", "thirdorder">>

\* C3: a call of either assembler with a mode other than "force" and
\* "hessian" raises the invalid-mode error and returns no workflow.
C3_InvalidModeRaises ==
  (call.fn # "none" /\ call.mode \notin {"force", "hessian"}) =>
    /\ raised = InvalidModeError
    /\ ret = NoWf

C3_Witness ==
  /\ call.fn = "get_wf_thermal_conductivity"
  /\ call.mode = "bogus"
  /\ call.optimize_structure
  /\ raised = "ValueError"

\* C4: the input set object passed to an assembler is never changed by the
\* call: its user_incar_settings and user_kpoints_settings stay as they were.
C4_BaseNeverMutated ==
  [][vis_uis' = vis_uis /\ vis_uks' = vis_uks]_vars

\* the settings the dispersion unit must carry, as the documentation lists them
C5_Overrides(mode) ==
  IF mode = "force"
  THEN [EDIFF |-> "1E-08", IBRION |-> "2", ISMEAR |-> "0", ISPIN |-> "1", NSW |-> "0"]
  ELSE [EDIFF |-> "1E-08", IBRION |-> "6", ISMEAR |-> "0", ISPIN |-> "1", NSW |-> "1",
        POTIM |-> "0.015"]

C5_Derived ==
  ret # NoWf =>
    LET u == Unit(ret, "dispersion")
        base == IF ret.base_uis = None THEN EmptyDict ELSE ret.base_uis
        ov == C5_Overrides(call.mode)
    IN /\ DOMAIN u.uis = (DOMAIN base) \cup (DOMAIN ov)
       /\ \A k \in DOMAIN ov : u.uis[k] = ov[k]
       /\ \A k \in (DOMAIN base) \ (DOMAIN ov) : u.uis[k] = base[k]
       /\ u.uks = IF call.user_kpoints_settings \in {None, EmptyDict}
                  THEN ret.base_uks ELSE call.user_kpoints_settings

C5_SameTwice ==
  ( /\ ret # NoWf
    /\ ret' # NoWf
    /\ ret'.base_uis = ret.base_uis
    /\ ret'.base_uks = ret.base_uks
    /\ call'.mode = call.mode
    /\ call'.user_kpoints_settings = call.user_kpoints_settings )
  => /\ Unit(ret', "dispersion").uis = Unit(ret, "dispersion").uis
     /\ Unit(ret', "dispersion").uks = Unit(ret, "dispersion").uks

\* C5: the settings of the dispersion unit are the base settings (as they are
\* when the call starts) with EDIFF and the constants of the mode replaced
\* and every other key kept, and two calls that derive from equal base
\* settings with the same mode and k-point override give equal settings.
C5_DerivedSettings == []C5_Derived /\ [][C5_SameTwice]_vars

C5_Witness ==
  /\ Returned("get_wf_thermal_conductivity")
  /\ call.mode = "hessian"
  /\ call.own_vis
  /\ call.optimize_structure
  /\ ret.base_uis = [IBRION |-> "1", POTIM |-> "0.5"]
  /\ Unit(ret, "dispersion").uis =
       [EDIFF |-> "1E-08", IBRION |-> "6", ISMEAR |-> "0", ISPIN |-> "1", NSW |-> "1",
        POTIM |-> "0.015"]

\* C6: two assembler calls that both return a workflow give the two
\* workflows distinct tags, also when no time passes between the calls.
C6_DistinctTags ==
  [][(clock' = clock /\ ret # NoWf /\ ret' # NoWf) => ret'.tag # ret.tag]_vars

C7_HasGrid(settings) == "kpts" \in DOMAIN settings /\ settings.kpts \in Grids

\* C7 as claimed: the k-points are a gamma-centered grid of an explicit grid
\* whenever the override or the config carries one, in every combination of
\* the two, and the base class's k-points in every other case.
C7_EitherSource ==
  kp # NoKp =>
    LET u == kp.user_kpoints_settings
        c == kp.config_kpoints
    IN IF C7_HasGrid(u) \/ C7_HasGrid(c)
       THEN /\ kp.result.style = "Gamma"
            /\ \/ C7_HasGrid(u) /\ kp.result.kpts = u.kpts
               \/ C7_HasGrid(c) /\ kp.result.kpts = c.kpts
       ELSE kp.result.style = "base class"

\* C7 (amended): the settings consulted are the override when it is
\* non-empty and the config's KPOINTS category otherwise; the k-points are a
\* gamma-centered grid of the explicit grid exactly when the consulted
\* settings carry one, and the base class's k-points in every other case,
\* also when a non-empty override has no grid and the config has one.
C7_ConsultedSource ==
  kp # NoKp =>
    LET u == kp.user_kpoints_settings
        c == kp.config_kpoints
        consulted == IF u # None /\ DOMAIN u # {} THEN u ELSE c
    IN IF C7_HasGrid(consulted)
       THEN kp.result = [style |-> "Gamma", kpts |-> consulted.kpts]
       ELSE kp.result.style = "base class"

C7_Witness ==
  /\ kp.user_kpoints_settings = [grid_density |-> <<7000>>]
  /\ C7_HasGrid(kp.config_kpoints)
  /\ kp.result.style = "base class"

\* C8 as claimed: a workflow of get_wf_thermal_conductivity has 4 or 5 units.
C8_FourOrFive ==
  Returned("get_wf_thermal_conductivity") => Len(ret.fws) \in {4, 5}

\* C8 (amended): a workflow of get_wf_thermal_conductivity has 3, 4 or 5
\* units, and 3 exactly in hessian mode without optimization.
C8_ThreeToFive ==
  Returned("get_wf_thermal_conductivity") =>
    /\ Len(ret.fws) \in {3, 4, 5}
    /\ Len(ret.fws) = 3 <=> (call.mode = "hessian" /\ ~call.optimize_structure)

C8_Witness ==
  /\ Returned("get_wf_thermal_conductivity")
  /\ call.mode = "hessian"
  /\ ~call.optimize_structure
  /\ Kinds(ret) = <<"dispersion", "thirdorder", "thermal">>

C9_TaskNames == [i \in 1..Len(stepfw.tasks) |-> stepfw.tasks[i].task]

\* C9: constructing OptimizeStepFW succeeds for every step_index >= 0 and
\* every combination of given and omitted optional arguments, with the steps
\* write, run, pass locations, store for step_index 0 and copy, write from
\* the structure on disk, run, pass locations, store for step_index > 0.
C9_ConstructionSucceeds ==
  stepfw # NoStep =>
    /\ stepfw.raised = "none"
    /\ C9_TaskNames =
         IF stepfw.step_index = 0
         THEN <<"WriteVaspFromIOSet", "RunVaspCustodian", "PassCalcLocs", "VaspToDbTask">>
         ELSE <<"CopyVaspOutputs", "WriteVaspRelaxFromStructure", "RunVaspCustodian",
                "PassCalcLocs", "VaspToDbTask">>

\* C10: the units of a returned workflow carry no object that the units of
\* the workflow returned before carry, and none that is a function's default.
C10_NothingShared ==
  [][(clock' = clock /\ ret' # NoWf) =>
       /\ Carried(ret') \cap DefaultObjs = {}
       /\ ret # NoWf => Carried(ret') \cap Carried(ret) = {}]_vars

====
